---------------------------- MODULE Spec2Model ----------------------------
(***************************************************************************)
(* Model of src/consensus/params.h (namespace Consensus): the rule classes *)
(* ConsensusRules / MainNetConsensus / TestNetConsensus / RegTestConsensus *)
(* with their virtual methods, and struct Params with its three derived    *)
(* queries.  A Params value is constructed once (Init) and then queried by *)
(* callers; a query is entered with an argument and then runs its body.    *)
(*                                                                         *)
(* Number representation.  The model checker's integers are exactly the    *)
(* values of a 32-bit `int`.  An `unsigned` is kept at its full 32-bit     *)
(* width as the record [top, low] standing for top * 2^31 + low, with top  *)
(* in 0..1 and low in 0..INT_MAX.  An int64_t is an integer of the model;  *)
(* the inputs drawn for int64_t fields and arguments lie inside the 32-bit *)
(* range (comparison and division do not depend on the width there; the    *)
(* one width-dependent quotient, INT64_MIN / -1, is outside that range).   *)
(***************************************************************************)
EXTENDS Integers, FiniteSets

VARIABLES params, pc, op, arg, ret

vars == <<params, pc, op, arg, ret>>

---------------------------------------------------------------------------
(* Bounds of the model *)

\* Heights and block times are drawn within Window of every breakpoint.
Window == 2

\* Number of threads querying the shared Params in SpecThreads.
NumThreads == 2

\* SpecSweep asks the expiration depth at every height 0..SweepHeights.
SweepHeights == 1000000

---------------------------------------------------------------------------
(* Fixed-width integers *)

\* Largest value of `int`; also the largest `low` part of an unsigned.
INT_MAX == 2147483647

\* The unsigned value n, for 0 <= n <= INT_MAX.
U32(n) == [top |-> 0, low |-> n]

\* a < b on unsigned operands.
U32Less(a, b) == \/ a.top < b.top
                 \/ a.top = b.top /\ a.low < b.low

\* a - b on unsigned operands: the difference modulo 2^32.
U32Sub(a, b) ==
    LET borrow == IF a.low >= b.low THEN 0 ELSE 1
        low    == IF a.low >= b.low
                     THEN a.low - b.low
                     ELSE ((a.low - b.low) + INT_MAX) + 1
    IN  [top |-> (a.top - b.top - borrow) % 2, low |-> low]

\* static_cast<int>(u): the value with the same 32 bits, so an unsigned of
\* 2^31 or more becomes u - 2^32 (what every supported compiler produces).
StaticCastInt(u) == IF u.top = 0 THEN u.low ELSE (u.low - INT_MAX) - 1

Abs(x) == IF x < 0 THEN -x ELSE x

\* a / b of C++ on signed operands, b # 0: the quotient rounded toward zero.
TruncDiv(a, b) ==
    LET q == Abs(a) \div Abs(b)
    IN  IF (a < 0) = (b < 0) THEN q ELSE -q

\* One coin in base units (amount.h).
COIN == 100000000

---------------------------------------------------------------------------
(* Results of a call *)

NoResult == [kind |-> "none", val |-> 0]

UnsignedResult(u) == [kind |-> "unsigned", val |-> u]

AmountResult(a) == [kind |-> "CAmount", val |-> a]

Int64Result(n) == [kind |-> "int64_t", val |-> n]

BoolResult(b) == [kind |-> "bool", val |-> b]

\* The process was terminated by the hardware's divide-error signal.
Trap == [kind |-> "SIGFPE", val |-> 0]

---------------------------------------------------------------------------
(* The rule classes: ConsensusRules <- MainNetConsensus <- TestNetConsensus *)
(* <- RegTestConsensus, with virtual NameExpirationDepth, MinNameCoinAmount *)

RulesClasses == {"MainNetConsensus", "TestNetConsensus", "RegTestConsensus"}

\* The direct base class.
BaseClass(cls) ==
    CASE cls = "RegTestConsensus" -> "TestNetConsensus"
      [] cls = "TestNetConsensus" -> "MainNetConsensus"
      [] cls = "MainNetConsensus" -> "ConsensusRules"

\* Declares with TestNetConsensus's MinNameCoinAmount failing to override
\* (the methods carry no `override` specifier, so a signature that differs
\* from the base's compiles and silently declares a new method).
Declares_TestNetNotOverriding(cls) ==
    CASE cls = "ConsensusRules"   -> {}
      [] cls = "MainNetConsensus" -> {"NameExpirationDepth", "MinNameCoinAmount"}
      [] cls = "TestNetConsensus" -> {}
      [] cls = "RegTestConsensus" -> {"NameExpirationDepth"}

\* Declares with RegTestConsensus's NameExpirationDepth failing to override.
Declares_RegTestNotOverriding(cls) ==
    CASE cls = "ConsensusRules"   -> {}
      [] cls = "MainNetConsensus" -> {"NameExpirationDepth", "MinNameCoinAmount"}
      [] cls = "TestNetConsensus" -> {"MinNameCoinAmount"}
      [] cls = "RegTestConsensus" -> {}

\* The virtual methods a class defines a body for.
Declares(cls) ==
    CASE cls = "ConsensusRules"   -> {}
      [] cls = "MainNetConsensus" -> {"NameExpirationDepth", "MinNameCoinAmount"}
      [] cls = "TestNetConsensus" -> {"MinNameCoinAmount"}
      [] cls = "RegTestConsensus" -> {"NameExpirationDepth"}

\* The class whose body a virtual call on an object of class cls runs: the
\* most derived class, from cls upward, that defines the method.
RECURSIVE FinalOverrider(_, _)
FinalOverrider(cls, method) ==
    IF method \in Declares(cls) THEN cls
    ELSE FinalOverrider(BaseClass(cls), method)

\* MainNetConsensus::NameExpirationDepth with the growing middle piece
\* replaced by the first constant.
NameExpirationDepth_FlatMiddle(nHeight) ==
    IF U32Less(nHeight, U32(48000)) THEN U32(12000)
    ELSE U32(36000)

\* MainNetConsensus::NameExpirationDepth with the first breakpoint taken
\* to be the first depth.
NameExpirationDepth_EarlyBreakpoint(nHeight) ==
    IF U32Less(nHeight, U32(12000)) THEN U32(12000)
    ELSE IF U32Less(nHeight, U32(48000)) THEN U32Sub(nHeight, U32(12000))
    ELSE U32(36000)

MainNetConsensus_NameExpirationDepth(nHeight) ==
    IF U32Less(nHeight, U32(24000)) THEN U32(12000)
    ELSE IF U32Less(nHeight, U32(48000)) THEN U32Sub(nHeight, U32(12000))
    ELSE U32(36000)

\* MainNetConsensus::MinNameCoinAmount with the cut-off height itself still
\* free of the minimum.
MinNameCoinAmount_CutoffInclusive(nHeight) ==
    IF ~U32Less(U32(212500), nHeight) THEN 0
    ELSE TruncDiv(COIN, 100)

MainNetConsensus_MinNameCoinAmount(nHeight) ==
    IF U32Less(nHeight, U32(212500)) THEN 0
    ELSE TruncDiv(COIN, 100)

TestNetConsensus_MinNameCoinAmount(nHeight) == TruncDiv(COIN, 100)

RegTestConsensus_NameExpirationDepth(nHeight) == U32(30)

\* rules->NameExpirationDepth(nHeight) on an object of class cls.
Rules_NameExpirationDepth(cls, nHeight) ==
    LET body == FinalOverrider(cls, "NameExpirationDepth")
    IN  CASE body = "MainNetConsensus" -> MainNetConsensus_NameExpirationDepth(nHeight)
          [] body = "RegTestConsensus" -> RegTestConsensus_NameExpirationDepth(nHeight)

\* rules->MinNameCoinAmount(nHeight) on an object of class cls.
Rules_MinNameCoinAmount(cls, nHeight) ==
    LET body == FinalOverrider(cls, "MinNameCoinAmount")
    IN  CASE body = "MainNetConsensus" -> MainNetConsensus_MinNameCoinAmount(nHeight)
          [] body = "TestNetConsensus" -> TestNetConsensus_MinNameCoinAmount(nHeight)

---------------------------------------------------------------------------
(* struct Params: the fields its queries read, and the queries *)

\* What nPowTargetTimespan / nPowTargetSpacing can produce.  With a zero
\* divisor the behaviour is undefined: the builds either raise the divide
\* error (the process is killed by SIGFPE) or yield some value.
UndefinedQuotients == {0, -1, INT_MAX}

\* DifficultyAdjustmentInterval with the quotient rounded down.
DifficultyAdjustmentInterval_Floor(p) ==
    IF p.nPowTargetSpacing = 0
       THEN {Trap} \cup {Int64Result(v) : v \in UndefinedQuotients}
       ELSE {Int64Result(p.nPowTargetTimespan \div p.nPowTargetSpacing)}

DifficultyAdjustmentInterval(p) ==
    IF p.nPowTargetSpacing = 0
       THEN {Trap} \cup {Int64Result(v) : v \in UndefinedQuotients}
       ELSE {Int64Result(TruncDiv(p.nPowTargetTimespan, p.nPowTargetSpacing))}

\* AllowMinDifficultyBlocks with the comparison not strict.
AllowMinDifficultyBlocks_NotStrict(p, nBlockTime) ==
    IF ~p.fPowAllowMinDifficultyBlocks THEN FALSE
    ELSE nBlockTime >= p.nMinDifficultySince

AllowMinDifficultyBlocks(p, nBlockTime) ==
    IF ~p.fPowAllowMinDifficultyBlocks THEN FALSE
    ELSE nBlockTime > p.nMinDifficultySince

AllowLegacyBlocks(p, nHeight) ==
    IF p.nLegacyBlocksBefore < 0 THEN TRUE
    ELSE StaticCastInt(nHeight) < p.nLegacyBlocksBefore

\* Every result the call o(a) on the Params p can end with.
Outcomes(p, o, a) ==
    CASE o = "NameExpirationDepth" ->
             {UnsignedResult(Rules_NameExpirationDepth(p.rules, a))}
      [] o = "MinNameCoinAmount" ->
             {AmountResult(Rules_MinNameCoinAmount(p.rules, a))}
      [] o = "DifficultyAdjustmentInterval" -> DifficultyAdjustmentInterval(p)
      [] o = "AllowMinDifficultyBlocks" ->
             {BoolResult(AllowMinDifficultyBlocks(p, a))}
      [] o = "AllowLegacyBlocks" -> {BoolResult(AllowLegacyBlocks(p, a))}

---------------------------------------------------------------------------
(* Inputs *)

Around(c) == {n \in (c - Window)..(c + Window) : n >= 0}

\* Heights at every breakpoint of the rules, at the cut-offs used below, at
\* the spec's sample heights and at both ends of each half of the unsigned
\* range (INT_MAX | 2^31 is where static_cast<int> changes sign).
HeightCentres == {0, 100, 12000, 24000, 48000, 212500, 1000000, 10000000}

HeightInputs ==
    {U32(n) : n \in UNION {Around(c) : c \in HeightCentres}}
    \cup {U32(INT_MAX - k) : k \in 0..Window}
    \cup {[top |-> 1, low |-> k] : k \in 0..Window}
    \cup {[top |-> 1, low |-> INT_MAX - k] : k \in 0..Window}

SinceInputs == {1400000000}

TimeInputs == UNION {Around(s) : s \in SinceInputs} \cup {0, INT_MAX}

\* <<nPowTargetTimespan, nPowTargetSpacing>>
PowTargetInputs ==
    {<<1209600, 600>>, <<1000, 300>>, <<-1000, 300>>, <<1000, -300>>,
     <<-1000, -300>>, <<0, 600>>, <<1000, 0>>}

LegacyInputs == {-1, 0, 100}

MakeParams(cls, legacy, allowMin, since, target) ==
    [rules                        |-> cls,
     nLegacyBlocksBefore          |-> legacy,
     fPowAllowMinDifficultyBlocks |-> allowMin,
     nMinDifficultySince          |-> since,
     nPowTargetTimespan           |-> target[1],
     nPowTargetSpacing            |-> target[2]]

ParamsInputs ==
    {MakeParams(cls, legacy, allowMin, since, target) :
        cls \in RulesClasses, legacy \in LegacyInputs, allowMin \in BOOLEAN,
        since \in SinceInputs, target \in PowTargetInputs}

\* The smaller inputs of the threaded specification.
ThreadHeights == {U32(99), U32(30000), U32(212500)}

ThreadTimes == {1400000000, 1400000001}

ThreadParams ==
    {MakeParams(cls, 100, TRUE, 1400000000, <<1209600, 600>>) : cls \in RulesClasses}
    \cup {MakeParams(cls, -1, FALSE, 1400000000, <<1000, 0>>) : cls \in RulesClasses}

---------------------------------------------------------------------------
(* Callers *)

Threads == DOMAIN pc

\* No call has killed the process.
Alive == \A t \in Threads : ret[t].kind # "SIGFPE"

\* Thread t enters the call o(a).
Enter(t, o, a) ==
    /\ Alive
    /\ pc[t] \in {"idle", "returned"}
    /\ pc'  = [pc EXCEPT ![t] = "called"]
    /\ op'  = [op EXCEPT ![t] = o]
    /\ arg' = [arg EXCEPT ![t] = a]
    /\ ret' = [ret EXCEPT ![t] = NoResult]
    /\ UNCHANGED params

\* Thread t runs the body of the call o it entered; the body is a const
\* member function and assigns nothing.
Leave(t, o) ==
    /\ Alive
    /\ pc[t] = "called"
    /\ op[t] = o
    /\ \E r \in Outcomes(params, o, arg[t]) : ret' = [ret EXCEPT ![t] = r]
    /\ pc' = [pc EXCEPT ![t] = "returned"]
    /\ UNCHANGED <<params, op, arg>>

CallNameExpirationDepth(t, heights) ==
    \E h \in heights : Enter(t, "NameExpirationDepth", h)

CallMinNameCoinAmount(t, heights) ==
    \E h \in heights : Enter(t, "MinNameCoinAmount", h)

CallDifficultyAdjustmentInterval(t) ==
    Enter(t, "DifficultyAdjustmentInterval", 0)

CallAllowMinDifficultyBlocks(t, times) ==
    \E b \in times : Enter(t, "AllowMinDifficultyBlocks", b)

CallAllowLegacyBlocks(t, heights) ==
    \E h \in heights : Enter(t, "AllowLegacyBlocks", h)

ReturnNameExpirationDepth(t) == Leave(t, "NameExpirationDepth")

ReturnMinNameCoinAmount(t) == Leave(t, "MinNameCoinAmount")

\* DifficultyAdjustmentInterval keeping its quotient in a field of the
\* shared object (what a `mutable` cache, or a non-const method, would do).
ReturnDifficultyAdjustmentInterval_Caching(t) ==
    /\ Alive
    /\ pc[t] = "called"
    /\ op[t] = "DifficultyAdjustmentInterval"
    /\ \E r \in Outcomes(params, op[t], arg[t]) :
          /\ ret' = [ret EXCEPT ![t] = r]
          /\ params' = [params EXCEPT !.nPowTargetTimespan = r.val]
    /\ pc' = [pc EXCEPT ![t] = "returned"]
    /\ UNCHANGED <<op, arg>>

ReturnDifficultyAdjustmentInterval(t) == Leave(t, "DifficultyAdjustmentInterval")

ReturnAllowMinDifficultyBlocks(t) == Leave(t, "AllowMinDifficultyBlocks")

ReturnAllowLegacyBlocks(t) == Leave(t, "AllowLegacyBlocks")

\* The state after construction: the fields set, no call made yet.
Construct(choices, threads) ==
    /\ params \in choices
    /\ pc  = [t \in threads |-> "idle"]
    /\ op  = [t \in threads |-> "none"]
    /\ arg = [t \in threads |-> 0]
    /\ ret = [t \in threads |-> NoResult]

---------------------------------------------------------------------------
(* One caller, every input *)

Init == Construct(ParamsInputs, {1})

Next ==
    \/ \E t \in Threads : CallNameExpirationDepth(t, HeightInputs)
    \/ \E t \in Threads : CallMinNameCoinAmount(t, HeightInputs)
    \/ \E t \in Threads : CallDifficultyAdjustmentInterval(t)
    \/ \E t \in Threads : CallAllowMinDifficultyBlocks(t, TimeInputs)
    \/ \E t \in Threads : CallAllowLegacyBlocks(t, HeightInputs)
    \/ \E t \in Threads : ReturnNameExpirationDepth(t)
    \/ \E t \in Threads : ReturnMinNameCoinAmount(t)
    \/ \E t \in Threads : ReturnDifficultyAdjustmentInterval(t)
    \/ \E t \in Threads : ReturnAllowMinDifficultyBlocks(t)
    \/ \E t \in Threads : ReturnAllowLegacyBlocks(t)

Spec == Init /\ [][Next]_vars

(* NumThreads callers sharing one Params *)

InitThreads == Construct(ThreadParams, 1..NumThreads)

NextThreads ==
    \/ \E t \in Threads : CallNameExpirationDepth(t, ThreadHeights)
    \/ \E t \in Threads : CallMinNameCoinAmount(t, ThreadHeights)
    \/ \E t \in Threads : CallDifficultyAdjustmentInterval(t)
    \/ \E t \in Threads : CallAllowMinDifficultyBlocks(t, ThreadTimes)
    \/ \E t \in Threads : CallAllowLegacyBlocks(t, ThreadHeights)
    \/ \E t \in Threads : ReturnNameExpirationDepth(t)
    \/ \E t \in Threads : ReturnMinNameCoinAmount(t)
    \/ \E t \in Threads : ReturnDifficultyAdjustmentInterval(t)
    \/ \E t \in Threads : ReturnAllowMinDifficultyBlocks(t)
    \/ \E t \in Threads : ReturnAllowLegacyBlocks(t)

SpecThreads == InitThreads /\ [][NextThreads]_vars

(* One caller on the main network, asking the expiration depth once, at any *)
(* height from 0 to SweepHeights                                           *)

SweepParams == {MakeParams("MainNetConsensus", -1, FALSE, 0, <<1209600, 600>>)}

InitSweep == Construct(SweepParams, {1})

NextSweep ==
    \/ \E t \in Threads :
          /\ pc[t] = "idle"
          /\ \E n \in 0..SweepHeights : CallNameExpirationDepth(t, {U32(n)})
    \/ \E t \in Threads : ReturnNameExpirationDepth(t)

SpecSweep == InitSweep /\ [][NextSweep]_vars

---------------------------------------------------------------------------
(* Properties *)

\* Thread t has returned from the call o.
Returned(t, o) == pc[t] = "returned" /\ op[t] = o /\ ret[t].kind # "SIGFPE"

\* C1: under MainNetConsensus, for every height 0 <= h < 1000000, the
\* integer h - NameExpirationDepth(h) taken at h + 1 is at least the one
\* taken at h.
C1_ExpiredUpToNonDecreasing ==
    \A t \in Threads :
        ( /\ Returned(t, "NameExpirationDepth")
          /\ params.rules = "MainNetConsensus"
          /\ arg[t].top = 0
          /\ arg[t].low < 1000000 )
        => LET h    == arg[t].low
               d    == ret[t].val
               next == Rules_NameExpirationDepth(params.rules, U32(h + 1))
           IN  /\ d.top = 0
               /\ next.top = 0
               /\ (h + 1) - next.low >= h - d.low

\* The depth was asked at 47999, the last height before the second
\* breakpoint, and 35999 came back.
C1_Witness ==
    \E t \in Threads :
        /\ Returned(t, "NameExpirationDepth")
        /\ params.rules = "MainNetConsensus"
        /\ arg[t] = U32(47999)
        /\ ret[t].val = U32(35999)

\* C2: under MainNetConsensus, NameExpirationDepth(h) is 12000 below 24000,
\* h - 12000 from 24000 up to 47999, and 36000 from 48000 on, with the
\* listed values at 0, 23999, 24000, 47999, 48000 and 1000000.
C2_MainNameExpirationDepth ==
    \A t \in Threads :
        (Returned(t, "NameExpirationDepth") /\ params.rules = "MainNetConsensus")
        => LET h == arg[t]
               d == ret[t].val
           IN  /\ (h.top = 0 /\ h.low < 24000) => d = U32(12000)
               /\ (h.top = 0 /\ h.low >= 24000 /\ h.low < 48000)
                     => d = U32(h.low - 12000)
               /\ (h.top = 1 \/ h.low >= 48000) => d = U32(36000)
               /\ h = U32(0)       => d = U32(12000)
               /\ h = U32(23999)   => d = U32(12000)
               /\ h = U32(24000)   => d = U32(12000)
               /\ h = U32(47999)   => d = U32(35999)
               /\ h = U32(48000)   => d = U32(36000)
               /\ h = U32(1000000) => d = U32(36000)

\* The depth was asked at 24001, inside the growing piece.
C2_Witness ==
    \E t \in Threads :
        /\ Returned(t, "NameExpirationDepth")
        /\ params.rules = "MainNetConsensus"
        /\ arg[t] = U32(24001)
        /\ ret[t].val = U32(12001)

\* C3: AllowLegacyBlocks(height) is true for every height when
\* nLegacyBlocksBefore is negative, and otherwise true exactly when the
\* height, as the unsigned number it is, is below nLegacyBlocksBefore.
C3_LegacyExactlyBelowCutoff ==
    \A t \in Threads :
        Returned(t, "AllowLegacyBlocks")
        => ret[t].val = ( \/ params.nLegacyBlocksBefore < 0
                          \/ /\ arg[t].top = 0
                             /\ arg[t].low < params.nLegacyBlocksBefore )

\* C4: AllowMinDifficultyBlocks(block_time) is false whenever
\* fPowAllowMinDifficultyBlocks is false, and otherwise true exactly when
\* block_time > nMinDifficultySince: false at T, true at T + 1.
C4_MinDifficultyStrictlyAfter ==
    \A t \in Threads :
        Returned(t, "AllowMinDifficultyBlocks")
        => LET T == params.nMinDifficultySince
           IN  /\ ~params.fPowAllowMinDifficultyBlocks => ret[t].val = FALSE
               /\ params.fPowAllowMinDifficultyBlocks
                     => ret[t].val = (arg[t] > T)
               /\ arg[t] = T => ret[t].val = FALSE
               /\ (params.fPowAllowMinDifficultyBlocks /\ arg[t] = T + 1)
                     => ret[t].val = TRUE

\* Minimum difficulty is enabled and the block time asked about is exactly
\* nMinDifficultySince.
C4_Witness ==
    \E t \in Threads :
        /\ Returned(t, "AllowMinDifficultyBlocks")
        /\ params.fPowAllowMinDifficultyBlocks
        /\ arg[t] = params.nMinDifficultySince
        /\ ret[t].val = FALSE

\* C5: under MainNetConsensus, MinNameCoinAmount(h) is 0 below 212500 and a
\* hundredth of COIN from 212500 on.
C5_MainMinNameCoinAmount ==
    \A t \in Threads :
        (Returned(t, "MinNameCoinAmount") /\ params.rules = "MainNetConsensus")
        => IF arg[t].top = 0 /\ arg[t].low < 212500
              THEN ret[t].val = 0
              ELSE ret[t].val * 100 = COIN

\* The amount was asked at the cut-off height 212500 itself.
C5_Witness ==
    \E t \in Threads :
        /\ Returned(t, "MinNameCoinAmount")
        /\ params.rules = "MainNetConsensus"
        /\ arg[t] = U32(212500)
        /\ ret[t].val > 0

\* C6: under TestNetConsensus and under RegTestConsensus,
\* MinNameCoinAmount(h) is a hundredth of COIN at every height.
C6_TestMinNameCoinAmount ==
    \A t \in Threads :
        ( /\ Returned(t, "MinNameCoinAmount")
          /\ params.rules \in {"TestNetConsensus", "RegTestConsensus"} )
        => ret[t].val * 100 = COIN

\* RegTestConsensus was asked the amount at height 0, below Main's cut-off.
C6_Witness ==
    \E t \in Threads :
        /\ Returned(t, "MinNameCoinAmount")
        /\ params.rules = "RegTestConsensus"
        /\ arg[t] = U32(0)
        /\ ret[t].val > 0

\* C7: under RegTestConsensus NameExpirationDepth(h) is 30 at every height,
\* and under TestNetConsensus it is what MainNetConsensus gives at h.
C7_RegTestDepthAndTestInherits ==
    \A t \in Threads :
        Returned(t, "NameExpirationDepth")
        => /\ params.rules = "RegTestConsensus" => ret[t].val = U32(30)
           /\ params.rules = "TestNetConsensus"
                 => ret[t].val = MainNetConsensus_NameExpirationDepth(arg[t])

\* RegTestConsensus was asked the depth at height 10000000.
C7_Witness ==
    \E t \in Threads :
        /\ Returned(t, "NameExpirationDepth")
        /\ params.rules = "RegTestConsensus"
        /\ arg[t] = U32(10000000)
        /\ ret[t].val = U32(30)

\* C8: every query, for every argument and every value of the fields it
\* reads, returns a value: no call ends in an error.
C8_EveryCallReturnsAValue ==
    \A t \in Threads :
        /\ ret[t].kind # "SIGFPE"
        /\ pc[t] = "returned"
              => ret[t].kind \in {"unsigned", "CAmount", "int64_t", "bool"}

\* C9: no step of any thread changes a field of the shared Params or its
\* rules object, and a call that has returned holds a result the same call
\* on the same Params produces by itself.
C9_QueriesArePure ==
    [][ /\ params' = params
        /\ \A t \in Threads :
              pc'[t] = "returned"
              => ret'[t] \in Outcomes(params, op'[t], arg'[t]) ]_vars

\* One thread has returned from a call while another is inside a call of a
\* different query.
C9_Witness ==
    \E t, u \in Threads :
        /\ t # u
        /\ pc[t] = "returned"
        /\ pc[u] = "called"
        /\ op[t] = "DifficultyAdjustmentInterval"
        /\ op[u] = "AllowLegacyBlocks"

\* C10: DifficultyAdjustmentInterval() is nPowTargetTimespan /
\* nPowTargetSpacing rounded toward zero: the remainder is smaller than the
\* divisor in magnitude and has the dividend's sign; 1209600 / 600 = 2016
\* and 1000 / 300 = 3.
C10_QuotientTruncates ==
    \A t \in Threads :
        (Returned(t, "DifficultyAdjustmentInterval") /\ params.nPowTargetSpacing # 0)
        => LET n == params.nPowTargetTimespan
               d == params.nPowTargetSpacing
               q == ret[t].val
               r == n - q * d
           IN  /\ ret[t].kind = "int64_t"
               /\ Abs(r) < Abs(d)
               /\ r = 0 \/ (r < 0) = (n < 0)
               /\ (n = 1209600 /\ d = 600) => q = 2016
               /\ (n = 1000 /\ d = 300) => q = 3

\* The interval was asked with the non-divisible pair 1000 / 300.
C10_Witness ==
    \E t \in Threads :
        /\ Returned(t, "DifficultyAdjustmentInterval")
        /\ params.nPowTargetTimespan = 1000
        /\ params.nPowTargetSpacing = 300
        /\ ret[t].val = 3

===========================================================================
